---- MODULE Spec2Model ----
(***************************************************************************)
(* gobloom: a Bloom filter (bloom.go), a scalable Bloom filter made of     *)
(* layers (scalable_bloom.go) and the lock strategies that guard a filter  *)
(* (mutex.go).                                                             *)
(*                                                                         *)
(* The specifications share the definitions below:                         *)
(*   Spec      one caller: a constructor call, then whole Add/Test calls   *)
(*   SpecConc  goroutines run BloomFilter.Add/Test statement by statement  *)
(*   SpecExclFair  SpecConc on an ExclusiveMutex, under fair scheduling    *)
(*   SpecScal  goroutines run ScalableBloomFilter.Add/Test statement by    *)
(*             statement                                                   *)
(*   SpecBuild one caller, element counts up to the largest uint64, on     *)
(*             the builds whose float64 to uint64 conversions differ       *)
(*                                                                         *)
(* Numbers.  float64 rates are exact rationals [num, den]; math.Log is     *)
(* fixed point in 1/1000; a uint64 word of the bit set is the set of the   *)
(* positions (0..63) of its 1 bits; a byte slice is a sequence of bytes;   *)
(* the 64-bit digest of the external murmur3 hash is a number below        *)
(* HashMod.                                                                *)
(***************************************************************************)
EXTENDS Integers, Sequences, FiniteSets, TLC

VARIABLES
    bf,       \* the *BloomFilter under use (New's result), NilBF when none
    sbf,      \* the *ScalableBloomFilter under use, NilSBF when none
    mu,       \* state of the sync.Mutex / sync.RWMutex inside bf.mutex
    pc,       \* per goroutine: the statement it is at
    call,     \* per goroutine: the locals of the call it is running
    last,     \* history: the most recent call that ended, and its result
    addLog,   \* history: the data of the Add calls that returned, in order
    started,  \* history: the number of calls the goroutines have entered
    heap      \* SpecScal: the *BloomFilter objects allocated so far, by address

vars == <<bf, sbf, mu, pc, call, last, addLog, started, heap>>

----------------------------------------------------------------------------
(* Bounds of the model *)

MaxAdds == 3        \* Add calls that return in one behaviour
HashMod == 61       \* digests are kept below HashMod instead of 2^64
NumProcs == 2       \* goroutines of SpecConc and SpecScal
MaxCalls == 3       \* calls the goroutines enter in one behaviour
UintBits == 8       \* width of uint64 in SpecBuild, instead of 64

\* the byte slices given to Add and Test
Data == {<<2>>, <<1, 2>>}
Procs == 1..NumProcs

----------------------------------------------------------------------------
(* float64 as exact rationals, math.Log and math.Ceil *)

Rat(a, b) == [num |-> a, den |-> b]

RECURSIVE Gcd(_, _)
Gcd(a, b) == IF b = 0 THEN a ELSE Gcd(b, a % b)

Abs(a) == IF a < 0 THEN -a ELSE a

Norm(q) ==
    LET g == Gcd(Abs(q.num), q.den)
    IN  IF q.num = 0 THEN Rat(0, 1) ELSE Rat(q.num \div g, q.den \div g)

RatMul(x, y) == Norm(Rat(x.num * y.num, x.den * y.den))

\* math.Pow(x, float64(e)) for a natural e
RECURSIVE RatPow(_, _)
RatPow(x, e) == IF e = 0 THEN Rat(1, 1) ELSE RatMul(x, RatPow(x, e - 1))

RatLeqZero(x) == x.num <= 0
RatGeqOne(x) == x.num >= x.den

Ln2Milli == 693
Ln3Milli == 1099
Ln5Milli == 1609
Ln7Milli == 1946

\* math.Log of a natural whose prime factors are 2, 3, 5, 7, in 1/1000
RECURSIVE LogNatMilli(_)
LogNatMilli(x) ==
    IF x = 1 THEN 0
    ELSE IF x % 2 = 0 THEN Ln2Milli + LogNatMilli(x \div 2)
    ELSE IF x % 3 = 0 THEN Ln3Milli + LogNatMilli(x \div 3)
    ELSE IF x % 5 = 0 THEN Ln5Milli + LogNatMilli(x \div 5)
    ELSE Ln7Milli + LogNatMilli(x \div 7)

\* math.Log(q) for a positive rational q, in 1/1000
LogMilli(q) == LogNatMilli(q.num) - LogNatMilli(q.den)

\* math.Ceil(a / b) for b > 0
CeilDiv(a, b) == -((-a) \div b)

----------------------------------------------------------------------------
(* bloom.go: LockType, Params, getOptimalParams *)

Default == 0
NoLock == 1
ExclusiveLock == 2
ReadWriteLock == 3

\* the values of the LockType enumeration
ValidLockTypes == {Default, NoLock, ExclusiveLock, ReadWriteLock}

NilBF == [isNil |-> TRUE]
NilSBF == [isNil |-> TRUE]

NoError == "nil"
ErrNIsZero == "number of elements cannot be 0"
ErrFpRate == "false positive rate must be between 0 and 1"
ErrHasherNil == "hasher cannot be nil"
ErrInvalidLockType == "invalid lock type"
ErrInitialSize == "invalid initial size, must be greater than 0"
ErrFpRateScalable == "invalid false positive rate, must be between 0 and 1"
ErrFpGrowth == "invalid false positive growth rate, must be greater than 0"

\* m := uint64(math.Ceil(-1 * float64(n) * math.Log(p) / math.Pow(math.Log(2), 2)))
OptimalM(n, p) ==
    LET m == CeilDiv((-1) * n * LogMilli(p) * 1000, Ln2Milli * Ln2Milli)
    IN  IF m = 0 THEN 1 ELSE m

\* k := uint64(math.Ceil((float64(m) / float64(n)) * math.Log(2)))
OptimalK(m, n) ==
    LET k == CeilDiv(m * Ln2Milli, n * 1000)
    IN  IF k = 0 THEN 1 ELSE k

getOptimalParams(n, p) ==
    LET m == OptimalM(n, p)
    IN  [m |-> m, k |-> OptimalK(m, n)]

----------------------------------------------------------------------------
(* murmur.go: the hash provider; hash.Hash64 objects *)

\* murmur3.New64WithSeed(seed): a hash object holds its seed and what was
\* written to it since the last Reset
NewHash64(seed) == [seed |-> seed, buf |-> <<>>]

\* MurMur3Hasher.GetHashes(n): n hash objects with the seeds 0..n-1
GetHashes(n) == [i \in 1..n |-> NewHash64(i - 1)]

\* p.Hasher.GetHashes(n), by the Hasher the caller injected: the
\* MurMur3Hasher, or a provider that cannot supply n functions and returns
\* the first n - 1 (ShortHasher) or none (EmptyHasher)
HasherGetHashes(hasher, n) ==
    IF hasher = "ShortHasher" THEN GetHashes(IF n = 0 THEN 0 ELSE n - 1)
    ELSE IF hasher = "EmptyHasher" THEN GetHashes(0)
    ELSE GetHashes(n)

HashReset(h) == [h EXCEPT !.buf = <<>>]
HashWrite(h, data) == [h EXCEPT !.buf = @ \o data]

RECURSIVE Mix(_, _)
Mix(acc, bytes) ==
    IF bytes = <<>> THEN acc
    ELSE Mix((acc * 31 + Head(bytes) * 7 + 3) % HashMod, Tail(bytes))

\* hash.Sum64(): the digest of the bytes written since Reset, under the seed
HashSum64(h) == Mix((h.seed * 17 + 5) % HashMod, h.buf)

\* the digest of data under the seed-th hash function
Digest(seed, data) == HashSum64(HashWrite(HashReset(NewHash64(seed)), data))

----------------------------------------------------------------------------
(* mutex.go: NewMutex *)

\* (mutation) NewMutex whose switch falls through to return nil, nil
NewMutexNoError(l) ==
    CASE l = ExclusiveLock -> [mutex |-> "ExclusiveMutex", err |-> NoError]
      [] l = ReadWriteLock -> [mutex |-> "ReadWriteMutex", err |-> NoError]
      [] OTHER -> [mutex |-> "nil", err |-> NoError]

\* the Mutex NewMutex returns: "nil", an *ExclusiveMutex or a *ReadWriteMutex
NewMutex(l) ==
    CASE l = NoLock -> [mutex |-> "nil", err |-> NoError]
      [] l = ExclusiveLock -> [mutex |-> "ExclusiveMutex", err |-> NoError]
      [] l = ReadWriteLock -> [mutex |-> "ReadWriteMutex", err |-> NoError]
      [] OTHER -> [mutex |-> "nil", err |-> ErrInvalidLockType]

----------------------------------------------------------------------------
(* bloom.go: New, Add, Test *)

applyDefaults(p) ==
    [p EXCEPT !.Hasher = IF @ = "nil" THEN "MurMur3Hasher" ELSE @,
              !.LockType = IF @ = Default THEN ExclusiveLock ELSE @]

\* make([]uint64, bitSetSize)
MakeBitSet(size) == [i \in 1..size |-> {}]

New(params) ==
    LET p == applyDefaults(params)
        mk == getOptimalParams(p.N, p.FalsePositiveRate)
        bitSetSize == (mk.m + 63) \div 64
        mx == NewMutex(p.LockType)
    IN  IF p.N = 0 THEN [bf |-> NilBF, err |-> ErrNIsZero]
        ELSE IF RatLeqZero(p.FalsePositiveRate) \/ RatGeqOne(p.FalsePositiveRate)
        THEN [bf |-> NilBF, err |-> ErrFpRate]
        ELSE IF p.Hasher = "nil" THEN [bf |-> NilBF, err |-> ErrHasherNil]
        ELSE IF mx.err # NoError THEN [bf |-> NilBF, err |-> mx.err]
        ELSE [bf |-> [isNil |-> FALSE,
                      m |-> mk.m,
                      k |-> mk.k,
                      bitSet |-> MakeBitSet(bitSetSize),
                      hashes |-> HasherGetHashes(p.Hasher, mk.k),
                      mutex |-> mx.mutex],
              err |-> NoError]

\* hashValue := hash.Sum64() % bf.m
HashValue(f, h) == HashSum64(h) % f.m

\* (mutation) bf.bitSet[index] = 1 << position: the word is overwritten
SetBitAssign(bitSet, hashValue) ==
    LET index == hashValue \div 64
        position == hashValue % 64
    IN  [bitSet EXCEPT ![index + 1] = {position}]

\* (mutation) bf.bitSet[index] ^= 1 << position: the bit is flipped
SetBitToggle(bitSet, hashValue) ==
    LET index == hashValue \div 64
        position == hashValue % 64
    IN  [bitSet EXCEPT ![index + 1] =
             IF position \in @ THEN @ \ {position} ELSE @ \cup {position}]

\* bf.bitSet[index] |= 1 << position
SetBit(bitSet, hashValue) ==
    LET index == hashValue \div 64
        position == hashValue % 64
    IN  [bitSet EXCEPT ![index + 1] = @ \cup {position}]

\* bf.bitSet[index]&(1<<position) == 0
BitIsZero(bitSet, hashValue) ==
    LET index == hashValue \div 64
        position == hashValue % 64
    IN  position \notin bitSet[index + 1]

\* one round of the loop of Add over bf.hashes, for the i-th hash object
AddRound(f, i, data) ==
    LET h == HashWrite(HashReset(f.hashes[i]), data)
    IN  [f EXCEPT !.hashes[i] = h,
                  !.bitSet = SetBit(f.bitSet, HashValue(f, h))]

\* the loop of Add from the i-th hash object on
RECURSIVE AddFrom(_, _, _)
AddFrom(f, i, data) ==
    IF i > Len(f.hashes) THEN f ELSE AddFrom(AddRound(f, i, data), i + 1, data)

\* BloomFilter.Add run alone, from Lock to the deferred Unlock: the filter after it
BloomFilterAdd(f, data) == AddFrom(f, 1, data)

\* the loop of Test from the i-th hash object on: the filter (its hash objects
\* are written) and the result
RECURSIVE TestFrom(_, _, _)
TestFrom(f, i, data) ==
    IF i > Len(f.hashes) THEN [bf |-> f, ret |-> TRUE]
    ELSE LET h == HashWrite(HashReset(f.hashes[i]), data)
             g == [f EXCEPT !.hashes[i] = h]
         IN  IF BitIsZero(f.bitSet, HashValue(f, h))
             THEN [bf |-> g, ret |-> FALSE]
             ELSE TestFrom(g, i + 1, data)

\* (mutation) Test that sets the bits it probes
BloomFilterTestSetsBits(f, data) ==
    [bf |-> AddFrom(f, 1, data), ret |-> TestFrom(f, 1, data).ret]

\* BloomFilter.Test run alone, from RLock to the deferred RUnlock
BloomFilterTest(f, data) == TestFrom(f, 1, data)

----------------------------------------------------------------------------
(* scalable_bloom.go: NewScalable, Add, Test *)

\* (mutation) NewScalable that rejects only a negative FalsePositiveGrowth
NewScalableGrowthLt(params) ==
    LET p == [params EXCEPT !.Hasher = IF @ = "nil" THEN "MurMur3Hasher" ELSE @,
                            !.LockType = IF @ = Default THEN ExclusiveLock ELSE @]
        r == New([N |-> p.InitialSize,
                  FalsePositiveRate |-> p.FalsePositiveRate,
                  Hasher |-> p.Hasher,
                  LockType |-> p.LockType])
    IN  IF p.InitialSize <= 0 THEN [sbf |-> NilSBF, err |-> ErrInitialSize]
        ELSE IF RatLeqZero(p.FalsePositiveRate) \/ RatGeqOne(p.FalsePositiveRate)
        THEN [sbf |-> NilSBF, err |-> ErrFpRateScalable]
        ELSE IF p.FalsePositiveGrowth.num < 0
        THEN [sbf |-> NilSBF, err |-> ErrFpGrowth]
        ELSE IF r.err # NoError THEN [sbf |-> NilSBF, err |-> r.err]
        ELSE [sbf |-> [isNil |-> FALSE,
                       filters |-> <<r.bf>>,
                       fpRate |-> p.FalsePositiveRate,
                       fpGrowth |-> p.FalsePositiveGrowth,
                       n |-> 0],
              err |-> NoError]

applyDefaultsScalable(p) ==
    [p EXCEPT !.Hasher = IF @ = "nil" THEN "MurMur3Hasher" ELSE @,
              !.LockType = IF @ = Default THEN ExclusiveLock ELSE @]

NewScalable(params) ==
    LET p == applyDefaultsScalable(params)
        r == New([N |-> p.InitialSize,
                  FalsePositiveRate |-> p.FalsePositiveRate,
                  Hasher |-> p.Hasher,
                  LockType |-> p.LockType])
    IN  IF p.InitialSize <= 0 THEN [sbf |-> NilSBF, err |-> ErrInitialSize]
        ELSE IF RatLeqZero(p.FalsePositiveRate) \/ RatGeqOne(p.FalsePositiveRate)
        THEN [sbf |-> NilSBF, err |-> ErrFpRateScalable]
        ELSE IF RatLeqZero(p.FalsePositiveGrowth)
        THEN [sbf |-> NilSBF, err |-> ErrFpGrowth]
        ELSE IF r.err # NoError THEN [sbf |-> NilSBF, err |-> r.err]
        ELSE [sbf |-> [isNil |-> FALSE,
                       filters |-> <<r.bf>>,
                       fpRate |-> p.FalsePositiveRate,
                       fpGrowth |-> p.FalsePositiveGrowth,
                       n |-> 0],
              err |-> NoError]

\* for i := uint64(0); i < filter.k; i++ { filter.Add(data) }, from round i on
RECURSIVE AddKTimes(_, _, _)
AddKTimes(f, i, data) ==
    IF i >= f.k THEN f ELSE AddKTimes(BloomFilterAdd(f, data), i + 1, data)

\* (mutation) Add that writes the item into the newest layer only
AddToNewestLayerOnly(filters, j, data) ==
    LET top == Len(filters)
    IN  IF filters[top].isNil THEN [filters |-> filters, panic |-> TRUE]
        ELSE [filters |-> [filters EXCEPT ![top] = AddKTimes(@, 0, data)],
              panic |-> FALSE]

\* the loop of Add over sbf.filters from layer j on: the layers after it, and
\* whether it panicked (filter.k of a nil *BloomFilter)
RECURSIVE AddToLayers(_, _, _)
AddToLayers(filters, j, data) ==
    IF j > Len(filters) THEN [filters |-> filters, panic |-> FALSE]
    ELSE IF filters[j].isNil THEN [filters |-> filters, panic |-> TRUE]
    ELSE AddToLayers([filters EXCEPT ![j] = AddKTimes(@, 0, data)], j + 1, data)

\* (mutation) the capacity check with >= for >
ExceedsCapacityGeq(n, currentFilter, fpGrowth) ==
    n * Ln2Milli >= currentFilter.m * LogMilli(fpGrowth)

\* float64(sbf.n) > float64(currentFilter.m) * math.Log(sbf.fpGrowth) / math.Log(2)
ExceedsCapacity(n, currentFilter, fpGrowth) ==
    n * Ln2Milli > currentFilter.m * LogMilli(fpGrowth)

\* newFpRate := sbf.fpRate * math.Pow(sbf.fpGrowth, float64(len(sbf.filters)))
NewFpRate(s) == RatMul(s.fpRate, RatPow(s.fpGrowth, Len(s.filters)))

\* nbf, _ := New(Params{N: sbf.n, FalsePositiveRate: newFpRate})
NewLayer(s) ==
    New([N |-> s.n,
         FalsePositiveRate |-> NewFpRate(s),
         Hasher |-> "nil",
         LockType |-> Default])

\* (mutation) growth that puts the new layer in the place of the newest one
GrowReplaceLast(s) ==
    LET currentFilter == s.filters[Len(s.filters)]
        r == NewLayer(s)
    IN  IF ExceedsCapacity(s.n, currentFilter, s.fpGrowth)
        THEN [sbf |-> [s EXCEPT !.filters[Len(s.filters)] = r.bf],
              grew |-> TRUE, newErr |-> r.err]
        ELSE [sbf |-> s, grew |-> FALSE, newErr |-> NoError]

\* the tail of Add, after sbf.n++: the capacity check and the growth
Grow(s) ==
    LET currentFilter == s.filters[Len(s.filters)]
        r == NewLayer(s)
    IN  IF ExceedsCapacity(s.n, currentFilter, s.fpGrowth)
        THEN [sbf |-> [s EXCEPT !.filters = Append(@, r.bf)],
              grew |-> TRUE, newErr |-> r.err]
        ELSE [sbf |-> s, grew |-> FALSE, newErr |-> NoError]

\* (mutation) Add without sbf.n++
ScalableAddNoIncrement(s, data) ==
    LET a == AddToLayers(s.filters, 1, data)
        s1 == [s EXCEPT !.filters = a.filters]
        g == Grow(s1)
    IN  IF a.panic
        THEN [sbf |-> s1, panic |-> TRUE, err |-> NoError,
              grew |-> FALSE, newErr |-> NoError]
        ELSE [sbf |-> g.sbf, panic |-> FALSE, err |-> NoError,
              grew |-> g.grew, newErr |-> g.newErr]

\* ScalableBloomFilter.Add run alone: the filter after it, what it returned
\* (err) or that it panicked, whether it appended, and the error New gave it
ScalableAdd(s, data) ==
    LET a == AddToLayers(s.filters, 1, data)
        s1 == [s EXCEPT !.filters = a.filters]
        s2 == [s1 EXCEPT !.n = @ + 1]
        g == Grow(s2)
    IN  IF a.panic
        THEN [sbf |-> s1, panic |-> TRUE, err |-> NoError,
              grew |-> FALSE, newErr |-> NoError]
        ELSE [sbf |-> g.sbf, panic |-> FALSE, err |-> NoError,
              grew |-> g.grew, newErr |-> g.newErr]

\* for i := uint64(0); i < filter.k; i++ { b, err := filter.Test(data) ... },
\* from round i on: the layer after it and isPresent
RECURSIVE TestKTimes(_, _, _)
TestKTimes(f, i, data) ==
    IF i >= f.k THEN [bf |-> f, isPresent |-> TRUE]
    ELSE LET t == BloomFilterTest(f, data)
         IN  IF ~t.ret THEN [bf |-> t.bf, isPresent |-> FALSE]
             ELSE TestKTimes(t.bf, i + 1, data)

\* (mutation) Test that asks the newest layer only
TestNewestLayerOnly(filters, j, data) ==
    LET top == Len(filters)
        t == TestKTimes(filters[top], 0, data)
    IN  IF filters[top].isNil
        THEN [filters |-> filters, ret |-> FALSE, panic |-> TRUE, visited |-> top]
        ELSE [filters |-> [filters EXCEPT ![top] = t.bf],
              ret |-> t.isPresent, panic |-> FALSE, visited |-> top]

\* (mutation) Test that asks the oldest layer only
TestOldestLayerOnly(filters, j, data) ==
    LET t == TestKTimes(filters[1], 0, data)
    IN  [filters |-> [filters EXCEPT ![1] = t.bf],
         ret |-> t.isPresent, panic |-> FALSE, visited |-> 1]

\* the loop of Test over sbf.filters from layer j on; visited is the index of
\* the last layer the loop reached
RECURSIVE TestLayers(_, _, _)
TestLayers(filters, j, data) ==
    IF j > Len(filters)
    THEN [filters |-> filters, ret |-> FALSE, panic |-> FALSE, visited |-> j - 1]
    ELSE IF filters[j].isNil
    THEN [filters |-> filters, ret |-> FALSE, panic |-> TRUE, visited |-> j]
    ELSE LET t == TestKTimes(filters[j], 0, data)
             fs == [filters EXCEPT ![j] = t.bf]
         IN  IF t.isPresent
             THEN [filters |-> fs, ret |-> TRUE, panic |-> FALSE, visited |-> j]
             ELSE TestLayers(fs, j + 1, data)

\* ScalableBloomFilter.Test run alone
ScalableTest(s, data) ==
    LET t == TestLayers(s.filters, 1, data)
    IN  [sbf |-> [s EXCEPT !.filters = t.filters],
         ret |-> t.ret, panic |-> t.panic, visited |-> t.visited]

----------------------------------------------------------------------------
(* Spec: one caller.  A constructor is called once with parameters of the  *)
(* sets below; then Add and Test are called, one whole call per step.      *)

ParamN == {0, 1, 2}
FpRates == {Rat(-1, 2), Rat(0, 1), Rat(1, 4), Rat(1, 2), Rat(1, 1), Rat(3, 2)}
FpGrowths == {Rat(-1, 1), Rat(0, 1), Rat(1, 2), Rat(1, 1), Rat(2, 1)}
Hashers == {"nil", "MurMur3Hasher", "ShortHasher", "EmptyHasher"}
LockTypes == Default..(ReadWriteLock + 1)

ParamsSet ==
    [N : ParamN, FalsePositiveRate : FpRates, Hasher : Hashers, LockType : LockTypes]

ParamsScalableSet ==
    [InitialSize : ParamN, FalsePositiveRate : FpRates,
     FalsePositiveGrowth : FpGrowths, Hasher : Hashers, LockType : LockTypes]

Idle == [g \in Procs |-> "idle"]
NoCall == [g \in Procs |-> [op |-> "none"]]
MuFree == [writer |-> 0, readers |-> {}, pending |-> 0]

Init ==
    /\ bf = NilBF
    /\ sbf = NilSBF
    /\ mu = MuFree
    /\ pc = Idle
    /\ call = NoCall
    /\ last = [op |-> "none"]
    /\ addLog = <<>>
    /\ started = 0
    /\ heap = <<>>

CallNew ==
    /\ last.op = "none"
    /\ \E p \in ParamsSet :
           LET r == New(p)
           IN  /\ bf' = r.bf
               /\ last' = [op |-> "New", params |-> p, err |-> r.err]
    /\ UNCHANGED <<sbf, mu, pc, call, addLog, started, heap>>

CallNewScalable ==
    /\ last.op = "none"
    /\ \E p \in ParamsScalableSet :
           LET r == NewScalable(p)
           IN  /\ sbf' = r.sbf
               /\ last' = [op |-> "NewScalable", params |-> p, err |-> r.err]
    /\ UNCHANGED <<bf, mu, pc, call, addLog, started, heap>>

CallAdd ==
    /\ ~bf.isNil
    /\ Len(addLog) < MaxAdds
    /\ \E data \in Data :
           /\ bf' = BloomFilterAdd(bf, data)
           /\ addLog' = Append(addLog, data)
           /\ last' = [op |-> "Add", data |-> data]
    /\ UNCHANGED <<sbf, mu, pc, call, started, heap>>

CallTest ==
    /\ ~bf.isNil
    /\ \E data \in Data :
           LET t == BloomFilterTest(bf, data)
           IN  /\ bf' = t.bf
               /\ last' = [op |-> "Test", data |-> data, ret |-> t.ret]
    /\ UNCHANGED <<sbf, mu, pc, call, addLog, started, heap>>

CallScalableAdd ==
    /\ ~sbf.isNil
    /\ Len(addLog) < MaxAdds
    /\ \E data \in Data :
           LET a == ScalableAdd(sbf, data)
           IN  /\ sbf' = a.sbf
               /\ addLog' = IF a.panic THEN addLog ELSE Append(addLog, data)
               /\ last' = [op |-> "ScalableAdd", data |-> data, panic |-> a.panic,
                           err |-> a.err, grew |-> a.grew, newErr |-> a.newErr]
    /\ UNCHANGED <<bf, mu, pc, call, started, heap>>

CallScalableTest ==
    /\ ~sbf.isNil
    /\ \E data \in Data :
           LET t == ScalableTest(sbf, data)
           IN  /\ sbf' = t.sbf
               /\ last' = [op |-> "ScalableTest", data |-> data, panic |-> t.panic,
                           ret |-> t.ret, visited |-> t.visited]
    /\ UNCHANGED <<bf, mu, pc, call, addLog, started, heap>>

Next ==
    \/ CallNew
    \/ CallNewScalable
    \/ CallAdd
    \/ CallTest
    \/ CallScalableAdd
    \/ CallScalableTest

Spec == Init /\ [][Next]_vars

----------------------------------------------------------------------------
(* mutex.go: ExclusiveMutex (a sync.Mutex) and ReadWriteMutex (a            *)
(* sync.RWMutex).  mu.writer is the goroutine holding the sync.Mutex, or    *)
(* the write side of the sync.RWMutex; mu.readers are the goroutines        *)
(* holding its read side; mu.pending is the goroutine that called its Lock  *)
(* and holds its writer slot, from the call until its Unlock: sync.RWMutex  *)
(* makes RLock calls wait for a pending Lock.                               *)

\* (mutation) an ExclusiveMutex whose lock calls return while it is held
ExclusiveCanLockAlways(m) == TRUE

\* ExclusiveMutex.WLock, ExclusiveMutex.RLock: l.m.Lock() can return
ExclusiveCanLock(m) == m.writer = 0

ExclusiveLocked(m, g) == [m EXCEPT !.writer = g]

\* ExclusiveMutex.WUnlock, ExclusiveMutex.RUnlock: l.m.Unlock()
ExclusiveUnlocked(m) == [m EXCEPT !.writer = 0]

\* (mutation) a ReadWriteMutex whose RLock does not wait for writers
ReadWriteCanRLockAlways(m) == TRUE

\* ReadWriteMutex.RLock: l.m.RLock() can return
ReadWriteCanRLock(m) == m.pending = 0

ReadWriteRLocked(m, g) == [m EXCEPT !.readers = @ \cup {g}]

\* ReadWriteMutex.RUnlock: l.m.RUnlock()
ReadWriteRUnlocked(m, g) == [m EXCEPT !.readers = @ \ {g}]

\* ReadWriteMutex.WLock: l.m.Lock() can take the writer slot
ReadWriteCanBeginLock(m) == m.pending = 0

ReadWriteLockBegun(m, g) == [m EXCEPT !.pending = g]

\* ReadWriteMutex.WLock: l.m.Lock() can return, the readers having left
ReadWriteCanLock(m, g) == m.pending = g /\ m.readers = {}

ReadWriteLocked(m, g) == [m EXCEPT !.writer = g]

\* ReadWriteMutex.WUnlock: l.m.Unlock()
ReadWriteUnlocked(m) == [m EXCEPT !.writer = 0, !.pending = 0]

----------------------------------------------------------------------------
(* SpecConc: goroutines call Add and Test of one BloomFilter, each running  *)
(* the statements of bloom.go one at a time.                                *)

\* the byte slices the goroutines give to Add and Test
ConcData == {<<1>>, <<2>>}

ConcParams ==
    [N : {2}, FalsePositiveRate : {Rat(1, 2)}, Hasher : {"nil"},
     LockType : ValidLockTypes]

InitConc ==
    /\ \E p \in ConcParams : bf = New(p).bf
    /\ sbf = NilSBF
    /\ mu = MuFree
    /\ pc = Idle
    /\ call = NoCall
    /\ last = [op |-> "none"]
    /\ addLog = <<>>
    /\ started = 0
    /\ heap = <<>>

\* a caller enters Add(data) or Test(data); the callers of a filter without
\* a lock serialize their calls themselves
StartCall(g) ==
    /\ pc[g] = "idle"
    /\ bf.mutex = "nil" => \A h \in Procs : pc[h] = "idle"
    /\ started < MaxCalls
    /\ started' = started + 1
    /\ \E op \in {"Add", "Test"}, data \in ConcData :
           call' = [call EXCEPT ![g] =
                        [op |-> op, data |-> data, i |-> 1, sum |-> 0,
                         hashValue |-> 0, word |-> {}, ret |-> TRUE]]
    /\ pc' = [pc EXCEPT ![g] = "lock"]
    /\ UNCHANGED <<bf, sbf, mu, last, addLog, heap>>

\* if bf.mutex != nil is false: no lock is taken
SkipLock(g) ==
    /\ pc[g] = "lock"
    /\ bf.mutex = "nil"
    /\ pc' = [pc EXCEPT ![g] = "reset"]
    /\ UNCHANGED <<bf, sbf, mu, call, last, addLog, started, heap>>

\* Add: bf.mutex.Lock()
WLock(g) ==
    /\ pc[g] = "lock"
    /\ call[g].op = "Add"
    /\ bf.mutex # "nil"
    /\ IF bf.mutex = "ExclusiveMutex"
       THEN /\ ExclusiveCanLock(mu)
            /\ mu' = ExclusiveLocked(mu, g)
            /\ pc' = [pc EXCEPT ![g] = "reset"]
       ELSE /\ ReadWriteCanBeginLock(mu)
            /\ mu' = ReadWriteLockBegun(mu, g)
            /\ pc' = [pc EXCEPT ![g] = "lockwait"]
    /\ UNCHANGED <<bf, sbf, call, last, addLog, started, heap>>

\* Add: bf.mutex.Lock() of a ReadWriteMutex returns
WLockReturn(g) ==
    /\ pc[g] = "lockwait"
    /\ ReadWriteCanLock(mu, g)
    /\ mu' = ReadWriteLocked(mu, g)
    /\ pc' = [pc EXCEPT ![g] = "reset"]
    /\ UNCHANGED <<bf, sbf, call, last, addLog, started, heap>>

\* Test: bf.mutex.RLock()
RLock(g) ==
    /\ pc[g] = "lock"
    /\ call[g].op = "Test"
    /\ bf.mutex # "nil"
    /\ IF bf.mutex = "ExclusiveMutex"
       THEN /\ ExclusiveCanLock(mu)
            /\ mu' = ExclusiveLocked(mu, g)
       ELSE /\ ReadWriteCanRLock(mu)
            /\ mu' = ReadWriteRLocked(mu, g)
    /\ pc' = [pc EXCEPT ![g] = "reset"]
    /\ UNCHANGED <<bf, sbf, call, last, addLog, started, heap>>

\* for _, hash := range bf.hashes: the loop ends, or hash.Reset()
LoopReset(g) ==
    /\ pc[g] = "reset"
    /\ IF call[g].i > Len(bf.hashes)
       THEN /\ pc' = [pc EXCEPT ![g] = "unlock"]
            /\ bf' = bf
       ELSE /\ bf' = [bf EXCEPT !.hashes[call[g].i] = HashReset(@)]
            /\ pc' = [pc EXCEPT ![g] = "write"]
    /\ UNCHANGED <<sbf, mu, call, last, addLog, started, heap>>

\* hash.Write(data)
LoopWrite(g) ==
    /\ pc[g] = "write"
    /\ bf' = [bf EXCEPT !.hashes[call[g].i] = HashWrite(@, call[g].data)]
    /\ pc' = [pc EXCEPT ![g] = "sum"]
    /\ UNCHANGED <<sbf, mu, call, last, addLog, started, heap>>

\* hashValue := hash.Sum64() % bf.m
LoopSum(g) ==
    /\ pc[g] = "sum"
    /\ call' = [call EXCEPT ![g].sum = HashSum64(bf.hashes[call[g].i]),
                            ![g].hashValue = HashValue(bf, bf.hashes[call[g].i])]
    /\ pc' = [pc EXCEPT ![g] = IF call[g].op = "Add" THEN "load" ELSE "probe"]
    /\ UNCHANGED <<bf, sbf, mu, last, addLog, started, heap>>

\* Add: bf.bitSet[index] |= 1 << position, the read of the word
AddLoad(g) ==
    /\ pc[g] = "load"
    /\ call' = [call EXCEPT ![g].word = bf.bitSet[(call[g].hashValue \div 64) + 1]]
    /\ pc' = [pc EXCEPT ![g] = "store"]
    /\ UNCHANGED <<bf, sbf, mu, last, addLog, started, heap>>

\* Add: bf.bitSet[index] |= 1 << position, the write of the word
AddStore(g) ==
    /\ pc[g] = "store"
    /\ bf' = [bf EXCEPT !.bitSet[(call[g].hashValue \div 64) + 1] =
                            call[g].word \cup {call[g].hashValue % 64}]
    /\ call' = [call EXCEPT ![g].i = @ + 1, ![g].sum = 0, ![g].hashValue = 0,
                            ![g].word = {}]
    /\ pc' = [pc EXCEPT ![g] = "reset"]
    /\ UNCHANGED <<sbf, mu, last, addLog, started, heap>>

\* Test: if bf.bitSet[index]&(1<<position) == 0 { return false }
TestProbe(g) ==
    /\ pc[g] = "probe"
    /\ IF BitIsZero(bf.bitSet, call[g].hashValue)
       THEN /\ call' = [call EXCEPT ![g].ret = FALSE, ![g].sum = 0,
                                    ![g].hashValue = 0]
            /\ pc' = [pc EXCEPT ![g] = "unlock"]
       ELSE /\ call' = [call EXCEPT ![g].i = @ + 1, ![g].sum = 0,
                                    ![g].hashValue = 0]
            /\ pc' = [pc EXCEPT ![g] = "reset"]
    /\ UNCHANGED <<bf, sbf, mu, last, addLog, started, heap>>

\* (mutation) Test without defer: its return false leaves the lock held
UnlockReturnNoDefer(g) ==
    /\ pc[g] = "unlock"
    /\ mu' = CASE bf.mutex = "nil" -> mu
               [] call[g].op = "Test" /\ ~call[g].ret -> mu
               [] bf.mutex = "ExclusiveMutex" -> ExclusiveUnlocked(mu)
               [] call[g].op = "Add" -> ReadWriteUnlocked(mu)
               [] OTHER -> ReadWriteRUnlocked(mu, g)
    /\ pc' = [pc EXCEPT ![g] = "idle"]
    /\ call' = [call EXCEPT ![g] = [op |-> "none"]]
    /\ UNCHANGED <<bf, sbf, last, addLog, started, heap>>

\* the deferred bf.mutex.Unlock() of Add, bf.mutex.RUnlock() of Test; the
\* call returns
UnlockReturn(g) ==
    /\ pc[g] = "unlock"
    /\ mu' = CASE bf.mutex = "nil" -> mu
               [] bf.mutex = "ExclusiveMutex" -> ExclusiveUnlocked(mu)
               [] call[g].op = "Add" -> ReadWriteUnlocked(mu)
               [] OTHER -> ReadWriteRUnlocked(mu, g)
    /\ pc' = [pc EXCEPT ![g] = "idle"]
    /\ call' = [call EXCEPT ![g] = [op |-> "none"]]
    /\ UNCHANGED <<bf, sbf, last, addLog, started, heap>>

NextConc ==
    \E g \in Procs :
        \/ StartCall(g)
        \/ SkipLock(g)
        \/ WLock(g)
        \/ WLockReturn(g)
        \/ RLock(g)
        \/ LoopReset(g)
        \/ LoopWrite(g)
        \/ LoopSum(g)
        \/ AddLoad(g)
        \/ AddStore(g)
        \/ TestProbe(g)
        \/ UnlockReturn(g)

SpecConc == InitConc /\ [][NextConc]_vars

\* SpecExclFair: the goroutines of SpecConc on a filter that New built with
\* an ExclusiveMutex (ExclusiveLock, or Default), under fair scheduling.

InitExcl ==
    /\ InitConc
    /\ bf.mutex = "ExclusiveMutex"

\* a statement of the call goroutine g is running
RunCall(g) ==
    \/ WLock(g)
    \/ RLock(g)
    \/ LoopReset(g)
    \/ LoopWrite(g)
    \/ LoopSum(g)
    \/ AddLoad(g)
    \/ AddStore(g)
    \/ TestProbe(g)
    \/ UnlockReturn(g)

NextExcl ==
    \E g \in Procs :
        \/ StartCall(g)
        \/ WLock(g)
        \/ RLock(g)
        \/ LoopReset(g)
        \/ LoopWrite(g)
        \/ LoopSum(g)
        \/ AddLoad(g)
        \/ AddStore(g)
        \/ TestProbe(g)
        \/ UnlockReturn(g)

\* fair scheduling: a goroutine that can run its next statement does so in
\* the end, and a goroutine blocked in l.m.Lock() of a sync.Mutex that is
\* released again and again gets it in the end.  Callers are not obliged to
\* start calls.
SpecExclFair ==
    /\ InitExcl
    /\ [][NextExcl]_vars
    /\ \A g \in Procs : WF_vars(RunCall(g))
    /\ \A g \in Procs : SF_vars(WLock(g) \/ RLock(g))

----------------------------------------------------------------------------
(* SpecScal: goroutines call Add and Test of one ScalableBloomFilter.  The  *)
(* filter takes no lock of its own: every statement of its Add and Test   *)
(* that reads or writes sbf.filters or sbf.n is a step, and the steps of   *)
(* the goroutines interleave.  sbf.filters holds addresses into heap, 0    *)
(* for a slot that holds no constructed filter.  A call on one layer runs  *)
(* under that layer's ExclusiveMutex; the k calls in a row on one layer    *)
(* are one step (Add is idempotent and Test leaves the bits alone).        *)

NilPtr == 0

ScalParams ==
    [InitialSize : {2}, FalsePositiveRate : {Rat(3, 4)},
     FalsePositiveGrowth : {Rat(1, 2), Rat(4, 3)}, Hasher : {"nil"},
     LockType : {Default}]

NoScalCall == [op |-> "none"]

InitScal ==
    /\ \E p \in ScalParams :
           LET r == NewScalable(p)
           IN  /\ heap = r.sbf.filters
               /\ sbf = [r.sbf EXCEPT !.filters = <<1>>]
    /\ bf = NilBF
    /\ mu = MuFree
    /\ pc = Idle
    /\ call = [g \in Procs |-> NoScalCall]
    /\ last = [op |-> "none"]
    /\ addLog = <<>>
    /\ started = 0

\* a goroutine that panicked on a nil pointer ends the program
Running == \A g \in Procs : pc[g] # "panic"

\* a caller enters sbf.Add(data) or sbf.Test(data)
ScalStart(g) ==
    /\ Running
    /\ pc[g] = "idle"
    /\ started < MaxCalls
    /\ started' = started + 1
    /\ \E op \in {"Add", "Test"}, data \in ConcData :
           call' = [call EXCEPT ![g] =
                        [op |-> op, data |-> data, snap |-> <<>>, j |-> 1,
                         n |-> 0, currentFilter |-> NilPtr,
                         newFpRate |-> Rat(0, 1), nbf |-> NilPtr,
                         base |-> <<>>]]
    /\ pc' = [pc EXCEPT ![g] = "range"]
    /\ UNCHANGED <<bf, sbf, mu, last, addLog, heap>>

\* for _, filter := range sbf.filters: the range expression is read once
ScalRange(g) ==
    /\ Running
    /\ pc[g] = "range"
    /\ call' = [call EXCEPT ![g].snap = sbf.filters, ![g].j = 1]
    /\ pc' = [pc EXCEPT ![g] = "layer"]
    /\ UNCHANGED <<bf, sbf, mu, last, addLog, started, heap>>

\* Add, one round of the loop over the layers: filter.k of a nil filter
\* panics; else filter.Add(data), k times
ScalAddLayer(g) ==
    /\ Running
    /\ pc[g] = "layer"
    /\ call[g].op = "Add"
    /\ LET c == call[g]
       IN  IF c.j > Len(c.snap)
           THEN /\ pc' = [pc EXCEPT ![g] = "incLoad"]
                /\ UNCHANGED <<call, heap>>
           ELSE IF c.snap[c.j] = NilPtr
           THEN /\ pc' = [pc EXCEPT ![g] = "panic"]
                /\ UNCHANGED <<call, heap>>
           ELSE /\ heap' = [heap EXCEPT ![c.snap[c.j]] = AddKTimes(@, 0, c.data)]
                /\ call' = [call EXCEPT ![g].j = @ + 1]
                /\ UNCHANGED pc
    /\ UNCHANGED <<bf, sbf, mu, last, addLog, started>>

\* sbf.n++, the read
ScalIncLoad(g) ==
    /\ Running
    /\ pc[g] = "incLoad"
    /\ call' = [call EXCEPT ![g].n = sbf.n]
    /\ pc' = [pc EXCEPT ![g] = "incStore"]
    /\ UNCHANGED <<bf, sbf, mu, last, addLog, started, heap>>

\* sbf.n++, the write
ScalIncStore(g) ==
    /\ Running
    /\ pc[g] = "incStore"
    /\ sbf' = [sbf EXCEPT !.n = call[g].n + 1]
    /\ pc' = [pc EXCEPT ![g] = "current"]
    /\ UNCHANGED <<bf, mu, call, last, addLog, started, heap>>

\* currentFilter := sbf.filters[len(sbf.filters)-1]
ScalCurrent(g) ==
    /\ Running
    /\ pc[g] = "current"
    /\ call' = [call EXCEPT ![g].currentFilter = sbf.filters[Len(sbf.filters)]]
    /\ pc' = [pc EXCEPT ![g] = "check"]
    /\ UNCHANGED <<bf, sbf, mu, last, addLog, started, heap>>

\* currentCapacity := float64(currentFilter.m) * ...; if float64(sbf.n) >
\* currentCapacity; the Add returns nil when the check fails
ScalCheck(g) ==
    /\ Running
    /\ pc[g] = "check"
    /\ LET c == call[g]
       IN  IF c.currentFilter = NilPtr
           THEN /\ pc' = [pc EXCEPT ![g] = "panic"]
                /\ UNCHANGED <<call, addLog>>
           ELSE IF ExceedsCapacity(sbf.n, heap[c.currentFilter], sbf.fpGrowth)
           THEN /\ pc' = [pc EXCEPT ![g] = "fpRate"]
                /\ UNCHANGED <<call, addLog>>
           ELSE /\ pc' = [pc EXCEPT ![g] = "idle"]
                /\ call' = [call EXCEPT ![g] = NoScalCall]
                /\ addLog' = Append(addLog, c.data)
    /\ UNCHANGED <<bf, sbf, mu, last, started, heap>>

\* newFpRate := sbf.fpRate * math.Pow(sbf.fpGrowth, float64(len(sbf.filters)))
ScalNewFpRate(g) ==
    /\ Running
    /\ pc[g] = "fpRate"
    /\ call' = [call EXCEPT ![g].newFpRate = NewFpRate(sbf)]
    /\ pc' = [pc EXCEPT ![g] = "new"]
    /\ UNCHANGED <<bf, sbf, mu, last, addLog, started, heap>>

\* nbf, _ := New(Params{N: sbf.n, FalsePositiveRate: newFpRate}): nbf is nil
\* when New fails
ScalNew(g) ==
    /\ Running
    /\ pc[g] = "new"
    /\ LET r == New([N |-> sbf.n, FalsePositiveRate |-> call[g].newFpRate,
                     Hasher |-> "nil", LockType |-> Default])
       IN  IF r.err = NoError
           THEN /\ heap' = Append(heap, r.bf)
                /\ call' = [call EXCEPT ![g].nbf = Len(heap) + 1]
           ELSE /\ call' = [call EXCEPT ![g].nbf = NilPtr]
                /\ UNCHANGED heap
    /\ pc' = [pc EXCEPT ![g] = "appendLoad"]
    /\ UNCHANGED <<bf, sbf, mu, last, addLog, started>>

\* append(sbf.filters, nbf): the read of sbf.filters
ScalAppendLoad(g) ==
    /\ Running
    /\ pc[g] = "appendLoad"
    /\ call' = [call EXCEPT ![g].base = sbf.filters]
    /\ pc' = [pc EXCEPT ![g] = "appendLen"]
    /\ UNCHANGED <<bf, sbf, mu, last, addLog, started, heap>>

\* sbf.filters = append(...): the slice header is several words and is
\* written with no lock held; a reader can see the new length before it can
\* see the new element
ScalAppendLen(g) ==
    /\ Running
    /\ pc[g] = "appendLen"
    /\ sbf' = [sbf EXCEPT !.filters = Append(call[g].base, NilPtr)]
    /\ pc' = [pc EXCEPT ![g] = "appendPtr"]
    /\ UNCHANGED <<bf, mu, call, last, addLog, started, heap>>

\* sbf.filters = append(...): the whole of the new slice is visible; the Add
\* returns nil
ScalAppendPtr(g) ==
    /\ Running
    /\ pc[g] = "appendPtr"
    /\ sbf' = [sbf EXCEPT !.filters = Append(call[g].base, call[g].nbf)]
    /\ pc' = [pc EXCEPT ![g] = "idle"]
    /\ addLog' = Append(addLog, call[g].data)
    /\ call' = [call EXCEPT ![g] = NoScalCall]
    /\ UNCHANGED <<bf, mu, last, started, heap>>

\* Test, one round of the loop over the layers: filter.k of a nil filter
\* panics; else filter.Test(data) up to k times; return true on the first
\* layer that has the element, false after the last layer
ScalTestLayer(g) ==
    /\ Running
    /\ pc[g] = "layer"
    /\ call[g].op = "Test"
    /\ LET c == call[g]
       IN  IF c.j > Len(c.snap)
           THEN /\ pc' = [pc EXCEPT ![g] = "idle"]
                /\ call' = [call EXCEPT ![g] = NoScalCall]
                /\ UNCHANGED heap
           ELSE IF c.snap[c.j] = NilPtr
           THEN /\ pc' = [pc EXCEPT ![g] = "panic"]
                /\ UNCHANGED <<call, heap>>
           ELSE LET t == TestKTimes(heap[c.snap[c.j]], 0, c.data)
                IN  /\ heap' = [heap EXCEPT ![c.snap[c.j]] = t.bf]
                    /\ IF t.isPresent
                       THEN /\ pc' = [pc EXCEPT ![g] = "idle"]
                            /\ call' = [call EXCEPT ![g] = NoScalCall]
                       ELSE /\ call' = [call EXCEPT ![g].j = @ + 1]
                            /\ UNCHANGED pc
    /\ UNCHANGED <<bf, sbf, mu, last, addLog, started>>

NextScal ==
    \E g \in Procs :
        \/ ScalStart(g)
        \/ ScalRange(g)
        \/ ScalAddLayer(g)
        \/ ScalIncLoad(g)
        \/ ScalIncStore(g)
        \/ ScalCurrent(g)
        \/ ScalCheck(g)
        \/ ScalNewFpRate(g)
        \/ ScalNew(g)
        \/ ScalAppendLoad(g)
        \/ ScalAppendLen(g)
        \/ ScalAppendPtr(g)
        \/ ScalTestLayer(g)

SpecScal == InitScal /\ [][NextScal]_vars

----------------------------------------------------------------------------
(* Properties of Spec *)

\* data was given to an Add call that returned
InLog(data) == \E i \in 1..Len(addLog) : addLog[i] = data

\* C1: single filter, no false negatives.  Whenever a Test(x) call on the
\* BloomFilter has just returned and an Add(x) on that filter returned before
\* it, whatever else was added in between, the Test returned true.
C1_NoFalseNegative ==
    (last.op = "Test" /\ InLog(last.data)) => last.ret

\* x was added first, a different element after it, and Test(x) then returned true
C1_Witness ==
    /\ last.op = "Test"
    /\ Len(addLog) >= 2
    /\ last.data = addLog[1]
    /\ addLog[2] # addLog[1]
    /\ last.ret

\* C2: scalable filter, no false negatives.  Whenever a Test(x) call on the
\* ScalableBloomFilter has just ended and an Add(x) on it returned before,
\* with any further Adds and layer growth in between, the Test returned
\* true (it did not panic either).
C2_ScalableNoFalseNegative ==
    (last.op = "ScalableTest" /\ InLog(last.data)) => (last.ret /\ ~last.panic)

\* x was added first, then two more Adds each grew the filter, and Test(x)
\* returned true
C2_Witness ==
    /\ last.op = "ScalableTest"
    /\ Len(addLog) >= 3
    /\ last.data = addLog[1]
    /\ addLog[2] # addLog[1]
    /\ Len(sbf.filters) >= 3
    /\ last.ret

\* C3: when an Add grows the filter and New fails for the new layer, the Add
\* returns an error, and no nil layer is ever in the layer list.
C3_GrowthFailureReported ==
    /\ (last.op = "ScalableAdd" /\ ~last.panic /\ last.grew /\ last.newErr # NoError)
           => last.err # NoError
    /\ ~sbf.isNil => \A i \in 1..Len(sbf.filters) : ~sbf.filters[i].isNil

\* C4: parameter validation.  After New was called: with N = 0, or a rate
\* <= 0 or >= 1, it returned an error and no filter; with N > 0, a rate in
\* (0, 1) and a lock type of the enumeration it returned a filter and no
\* error.  After NewScalable was called: the same on InitialSize and
\* FalsePositiveRate, and an error and no filter with FalsePositiveGrowth <= 0.
C4_ParameterValidation ==
    /\ last.op = "New" =>
           LET n == last.params.N
               r == last.params.FalsePositiveRate
               bad == n = 0 \/ r.num <= 0 \/ r.num >= r.den
           IN  /\ bad => (last.err # NoError /\ bf.isNil)
               /\ (~bad /\ last.params.LockType \in ValidLockTypes)
                      => (last.err = NoError /\ ~bf.isNil)
    /\ last.op = "NewScalable" =>
           LET n == last.params.InitialSize
               r == last.params.FalsePositiveRate
               g == last.params.FalsePositiveGrowth
               bad == n = 0 \/ r.num <= 0 \/ r.num >= r.den \/ g.num <= 0
           IN  /\ bad => (last.err # NoError /\ sbf.isNil)
               /\ (~bad /\ last.params.LockType \in ValidLockTypes)
                      => (last.err = NoError /\ ~sbf.isNil)

\* NewScalable was called with a growth of 0 and everything else valid, and failed
C4_Witness ==
    /\ last.op = "NewScalable"
    /\ last.params.InitialSize > 0
    /\ last.params.FalsePositiveRate = Rat(1, 2)
    /\ last.params.FalsePositiveGrowth = Rat(0, 1)
    /\ last.params.LockType = ReadWriteLock
    /\ last.err = ErrFpGrowth
    /\ sbf.isNil

\* the layer g is the layer f at a later time: the same m and k, no bit lost
SameLayer(f, g) ==
    /\ f.isNil = g.isNil
    /\ ~f.isNil =>
           /\ f.m = g.m
           /\ f.k = g.k
           /\ Len(f.bitSet) = Len(g.bitSet)
           /\ \A w \in 1..Len(f.bitSet) : f.bitSet[w] \subseteq g.bitSet[w]

\* C9: the layer list is append-only.  It always holds at least one layer;
\* every step keeps the layers it held, in place and with their m and k, and
\* appends at most one; a step that is a Test call appends none.
C9_AppendOnly ==
    /\ [](~sbf.isNil => Len(sbf.filters) >= 1)
    /\ [][~sbf.isNil =>
              /\ ~sbf'.isNil
              /\ Len(sbf'.filters) \in {Len(sbf.filters), Len(sbf.filters) + 1}
              /\ \A i \in 1..Len(sbf.filters) :
                     SameLayer(sbf.filters[i], sbf'.filters[i])
              /\ last'.op = "ScalableTest" => Len(sbf'.filters) = Len(sbf.filters)
         ]_vars

\* two Adds have each appended a layer, and a Test has run on the three layers
C9_Witness ==
    /\ ~sbf.isNil
    /\ Len(sbf.filters) = 3
    /\ last.op = "ScalableTest"
    /\ last.visited >= 2

\* an Add call that returns appends one layer when the incremented count
\* exceeds m_last * ln(growth) / ln 2, m_last the bit count of the newest
\* layer before the call, and appends none otherwise
GrowsExactlyWhenOver ==
    [][(~sbf.isNil /\ addLog' # addLog) =>
           LET mLast == sbf.filters[Len(sbf.filters)].m
               over == sbf'.n * Ln2Milli > mLast * LogMilli(sbf.fpGrowth)
           IN  /\ sbf'.n = sbf.n + 1
               /\ Len(sbf'.filters) = Len(sbf.filters) + (IF over THEN 1 ELSE 0)
      ]_vars

\* the count exceeds the growth threshold of the first layer
OverFirstThreshold ==
    sbf.n * Ln2Milli > sbf.filters[1].m * LogMilli(sbf.fpGrowth)

\* C10 as stated: the growth trigger, and whenever the count exceeds the
\* threshold of the first layer the filter has more than one layer.
C10_AsStated ==
    /\ GrowsExactlyWhenOver
    /\ []((~sbf.isNil /\ OverFirstThreshold) => Len(sbf.filters) > 1)

\* C10, amended: the growth trigger, and whenever at least one Add has
\* returned and the count exceeds the threshold of the first layer, the
\* filter has more than one layer.
C10_GrowthTrigger ==
    /\ GrowsExactlyWhenOver
    /\ []((~sbf.isNil /\ sbf.n >= 1 /\ OverFirstThreshold) => Len(sbf.filters) > 1)

\* the first two Adds did not grow the filter and the third did
C10_Witness ==
    /\ last.op = "ScalableAdd"
    /\ last.grew
    /\ sbf.n = 3
    /\ Len(sbf.filters) = 2

----------------------------------------------------------------------------
(* Properties of SpecConc *)

\* goroutine g is past the lock call of its Add or Test and before the
\* deferred unlock has run
InCall(g) == pc[g] \in {"reset", "write", "sum", "load", "store", "probe", "unlock"}

\* g holds the filter's mutex; through WLock (Add); through RLock (Test)
Holding(g) == bf.mutex # "nil" /\ InCall(g)
HoldsW(g) == Holding(g) /\ call[g].op = "Add"
HoldsR(g) == Holding(g) /\ call[g].op = "Test"

\* C5: the lock contract.  ExclusiveMutex: no two goroutines hold it at once,
\* and while one holds it (through RLock or WLock) no lock call of another
\* can return.  ReadWriteMutex: while one goroutine holds it through WLock
\* no other holds it and no RLock or WLock call of another can return, and
\* while one holds it through RLock no WLock call can return.
C5_LockContract ==
    \A g, h \in Procs : g # h =>
        /\ bf.mutex = "ExclusiveMutex" =>
               /\ ~(Holding(g) /\ Holding(h))
               /\ (Holding(g) /\ pc[h] = "lock") => ~ENABLED (WLock(h) \/ RLock(h))
        /\ bf.mutex = "ReadWriteMutex" =>
               /\ ~(HoldsW(g) /\ Holding(h))
               /\ (HoldsW(g) /\ pc[h] \in {"lock", "lockwait"})
                      => ~ENABLED (WLock(h) \/ WLockReturn(h) \/ RLock(h))
               /\ (HoldsR(g) /\ pc[h] = "lockwait") => ~ENABLED WLockReturn(h)

\* an ExclusiveMutex is held through RLock while an Add waits in WLock
C5_Witness ==
    /\ bf.mutex = "ExclusiveMutex"
    /\ HoldsR(1)
    /\ pc[2] = "lock"
    /\ call[2].op = "Add"
    /\ mu.writer = 1

\* g is inside the loop over bf.hashes of Add; of Test
InAddLoop(g) ==
    call[g].op = "Add" /\ pc[g] \in {"reset", "write", "sum", "load", "store"}
InTestLoop(g) ==
    call[g].op = "Test" /\ pc[g] \in {"reset", "write", "sum", "probe"}

\* C6: on a filter with the ReadWriteLock policy no Test is inside its probe
\* loop while an Add is inside its bit-setting loop, and no two Adds are
\* inside their loops together.
C6_ReadersExcludeWriter ==
    bf.mutex = "ReadWriteMutex" =>
        \A g, h \in Procs : g # h =>
            ~(InAddLoop(g) /\ (InAddLoop(h) \/ InTestLoop(h)))

\* two Tests are inside their probe loops together
C6_Witness ==
    /\ bf.mutex = "ReadWriteMutex"
    /\ InTestLoop(1)
    /\ InTestLoop(2)
    /\ pc[1] = "probe"
    /\ pc[2] = "write"

\* g has Reset the i-th hash object and not yet taken its Sum64
UsingHash(g, i) == pc[g] \in {"write", "sum"} /\ call[g].i = i

\* C7: on a filter with a lock, no two goroutines are between Reset and Sum64
\* on the same hash object, and every digest a goroutine has taken is the
\* digest of its own input.
C7_HashObjectsNotShared ==
    bf.mutex # "nil" =>
        /\ \A g, h \in Procs : g # h =>
               \A i \in 1..Len(bf.hashes) : ~(UsingHash(g, i) /\ UsingHash(h, i))
        /\ \A g \in Procs : pc[g] \in {"load", "probe"} =>
               call[g].sum = Digest(bf.hashes[call[g].i].seed, call[g].data)

----------------------------------------------------------------------------
(* Properties of SpecScal *)

\* C8: every layer a Test is about to visit, at any point of its loop over
\* the layer list it read, is a constructed filter (its slot holds the
\* address of a filter, not nil).
C8_TestVisitsConstructedLayers ==
    \A g \in Procs :
        (pc[g] = "layer" /\ call[g].op = "Test" /\ call[g].j <= Len(call[g].snap))
            => call[g].snap[call[g].j] # NilPtr

----------------------------------------------------------------------------
(* Properties of Spec: sizing and counting of the scalable filter *)

\* the layer f is a filter built by New for n elements and the rate p
SizedFor(f, n, p) ==
    /\ ~f.isNil
    /\ ~RatLeqZero(p)
    /\ ~RatGeqOne(p)
    /\ f.m = OptimalM(n, p)
    /\ f.k = OptimalK(f.m, n)

\* the rate p0 * growthFactor^i of the layer at the 0-based index i
LayerRate(s, i) == RatMul(s.fpRate, RatPow(s.fpGrowth, i))

\* C11: the first layer is sized for InitialSize and p0; a layer that an Add
\* has just appended, at the 0-based index i, is a filter sized for
\* p0 * growthFactor^i and for n equal to the element count at the append.
\* (m and k of a layer never change afterwards: C9.)
C11_LayerSizing ==
    /\ (last.op = "NewScalable" /\ last.err = NoError) =>
           SizedFor(sbf.filters[1], last.params.InitialSize, LayerRate(sbf, 0))
    /\ (last.op = "ScalableAdd" /\ ~last.panic /\ last.grew) =>
           SizedFor(sbf.filters[Len(sbf.filters)], sbf.n,
                    LayerRate(sbf, Len(sbf.filters) - 1))

\* C12: the element count is 0 after construction and never decreases; a
\* step in which an Add returns adds exactly 1 to it, duplicates included;
\* every other step, a Test among them, leaves it unchanged.
C12_ElementCount ==
    /\ []((last.op = "NewScalable" /\ ~sbf.isNil) => sbf.n = 0)
    /\ [][~sbf.isNil =>
              /\ ~sbf'.isNil
              /\ sbf'.n >= sbf.n
              /\ (addLog' # addLog) => sbf'.n = sbf.n + 1
              /\ (addLog' = addLog) => sbf'.n = sbf.n
              /\ last'.op = "ScalableTest" => sbf'.n = sbf.n
         ]_vars

\* the same element was added twice, a Test followed, and the count is 2
C12_Witness ==
    /\ ~sbf.isNil
    /\ Len(addLog) = 2
    /\ addLog[1] = addLog[2]
    /\ last.op = "ScalableTest"
    /\ sbf.n = 2

----------------------------------------------------------------------------
(* Properties of SpecScal: concurrent Adds *)

\* no call is running and none has panicked
AllReturned == \A g \in Procs : pc[g] = "idle"

\* the addresses held by the layer list
LayerAddresses == {sbf.filters[i] : i \in 1..Len(sbf.filters)}

\* C13: when every Add call that was started has returned, the element
\* count is the number of Add calls that returned (it was 0 before them),
\* and every filter that an Add built and appended is in the layer list.
C13_NoLostUpdate ==
    AllReturned =>
        /\ sbf.n = Len(addLog)
        /\ \A a \in 1..Len(heap) : a \in LayerAddresses

----------------------------------------------------------------------------
(* Properties of Spec: construction of a single filter *)

\* the k that New computes for the parameters p
WantedK(p) == getOptimalParams(p.N, p.FalsePositiveRate).k

\* the parameters p pass the checks of New on N and the rate
SizeAndRateValid(p) ==
    p.N > 0 /\ ~RatLeqZero(p.FalsePositiveRate) /\ ~RatGeqOne(p.FalsePositiveRate)

\* C14: after New was called with a hash provider that returns fewer than
\* k hash functions, New returned an error and no filter; and a filter that
\* New returned holds exactly k hash functions.
C14_HashCount ==
    last.op = "New" =>
        /\ (/\ SizeAndRateValid(last.params)
            /\ Len(HasherGetHashes(applyDefaults(last.params).Hasher,
                                   WantedK(last.params))) < WantedK(last.params))
               => (last.err # NoError /\ bf.isNil)
        /\ ~bf.isNil => Len(bf.hashes) = bf.k


----------------------------------------------------------------------------
(* Properties of Spec: what Add and Test do to the bits *)

\* the bit positions that the hash functions of the filter f give for data
ProbeBits(f, data) ==
    {Digest(f.hashes[i].seed, data) % f.m : i \in 1..Len(f.hashes)}

\* the bit at position b of the bit array of f is set
BitSet(f, b) == (b % 64) \in f.bitSet[(b \div 64) + 1]

\* every probe bit of data is set in f: f reports data as present
HasAllBits(f, data) == \A b \in ProbeBits(f, data) : BitSet(f, b)

\* no bit of f is set
AllZero(f) == \A w \in 1..Len(f.bitSet) : f.bitSet[w] = {}

\* C16: an Add(x) call leaves the probe bits of x set in every layer that the
\* list held when the call started, the older layers included; and when it
\* appends a layer, that layer is a filter with all bits zero (so it holds
\* neither x nor anything added before).
C16_AddToEveryLayer ==
    [][(~sbf.isNil /\ last'.op = "ScalableAdd") =>
           /\ \A i \in 1..Len(sbf.filters) :
                  /\ ~sbf'.filters[i].isNil
                  /\ HasAllBits(sbf'.filters[i], last'.data)
           /\ Len(sbf'.filters) > Len(sbf.filters) =>
                  /\ ~sbf'.filters[Len(sbf'.filters)].isNil
                  /\ AllZero(sbf'.filters[Len(sbf'.filters)])
      ]_vars


\* the layer at index i of the scalable filter has all probe bits of data set
LayerHas(i, data) ==
    ~sbf.filters[i].isNil /\ HasAllBits(sbf.filters[i], data)

\* C17: after a Test(x) call on the scalable filter, it returned true if and
\* only if some layer has all probe bits of x set; the loop went through the
\* layers from the oldest on, and when it returned true it had stopped at
\* the first layer that has them, when it returned false it had examined
\* every layer.
C17_TestAnyLayer ==
    last.op = "ScalableTest" =>
        /\ last.ret <=> \E i \in 1..Len(sbf.filters) : LayerHas(i, last.data)
        /\ last.ret =>
               /\ LayerHas(last.visited, last.data)
               /\ \A i \in 1..(last.visited - 1) : ~LayerHas(i, last.data)
        /\ (~last.ret /\ ~last.panic) => last.visited = Len(sbf.filters)

\* a Test returned true at the second layer: the first does not have the
\* element's bits, the second does
C17_Witness ==
    /\ last.op = "ScalableTest"
    /\ last.ret
    /\ last.visited = 2
    /\ Len(sbf.filters) >= 2


\* C18: after a Test(x) call on the single filter, it returned true if and
\* only if the bit h(x) mod m is set for every hash function h of the
\* filter; and on a filter to which nothing was added it returned false.
C18_TestAllBits ==
    last.op = "Test" =>
        /\ last.ret <=> HasAllBits(bf, last.data)
        /\ addLog = <<>> => ~last.ret


\* the positions of the set bits of the filter f
Bits(f) == {b \in 0..(64 * Len(f.bitSet) - 1) : BitSet(f, b)}

\* C19: the bit array of the single filter is all zero after New, keeps its
\* length, and no step clears a bit; an Add(x) step changes no bits but
\* those at the positions h(x) mod m, at most k of them, from 0 to 1; a
\* step that is not an Add changes no bit.
C19_BitsMonotonic ==
    /\ []((last.op = "New" /\ ~bf.isNil) => AllZero(bf))
    /\ [][~bf.isNil =>
              /\ ~bf'.isNil
              /\ bf'.m = bf.m
              /\ Len(bf'.bitSet) = Len(bf.bitSet)
              /\ Bits(bf) \subseteq Bits(bf')
              /\ last'.op = "Add" =>
                     /\ (Bits(bf') \ Bits(bf)) \subseteq ProbeBits(bf, last'.data)
                     /\ Cardinality(Bits(bf') \ Bits(bf)) <= bf.k
              /\ last'.op # "Add" => Bits(bf') = Bits(bf)
         ]_vars

\* an element was added twice and another element after it set a new bit
C19_Witness ==
    /\ last.op = "Add"
    /\ Len(addLog) = 3
    /\ addLog[1] = addLog[2]
    /\ addLog[3] # addLog[1]
    /\ ~(ProbeBits(bf, addLog[3]) \subseteq ProbeBits(bf, addLog[1]))
    /\ Cardinality(Bits(bf)) >= 2

\* the layers f and g have the same bits: g is f with no change of membership
SameBits(f, g) ==
    /\ f.isNil = g.isNil
    /\ ~f.isNil => (f.m = g.m /\ f.k = g.k /\ f.bitSet = g.bitSet)

\* C20: a Test step on the single filter leaves its bit array unchanged; a
\* Test step on the scalable filter leaves the layer list, the bits of every
\* layer and the element count unchanged; and a Test(x) that follows a
\* Test(x) directly ends as the first did.
C20_TestFrame ==
    /\ [][(~bf.isNil /\ last'.op = "Test") => SameBits(bf, bf')]_vars
    /\ [][(~sbf.isNil /\ last'.op = "ScalableTest") =>
              /\ Len(sbf'.filters) = Len(sbf.filters)
              /\ \A i \in 1..Len(sbf.filters) :
                     SameBits(sbf.filters[i], sbf'.filters[i])
              /\ sbf'.n = sbf.n
         ]_vars
    /\ [][(last.op = "Test" /\ last'.op = "Test" /\ last'.data = last.data)
              => last'.ret = last.ret]_vars
    /\ [][(/\ last.op = "ScalableTest"
           /\ last'.op = "ScalableTest"
           /\ last'.data = last.data)
              => (last'.ret = last.ret /\ last'.panic = last.panic)]_vars

\* a Test on a scalable filter of two layers, with elements added, went
\* through both layers and returned false
C20_Witness ==
    /\ last.op = "ScalableTest"
    /\ ~last.ret
    /\ ~last.panic
    /\ last.visited = 2
    /\ sbf.n >= 1
    /\ ~AllZero(sbf.filters[1])

----------------------------------------------------------------------------
(* Properties of Spec: the algebra of Add *)

\* the filter f with make([]uint64, bitSetSize) for its bit array, as New
\* left it
Zeroed(f) == [f EXCEPT !.bitSet = MakeBitSet(Len(f.bitSet))]

\* C21: on the single filter, Add(x) after Add(x) gives the bit array of one
\* Add(x), and Add(x) then Add(y) gives the bit array of Add(y) then Add(x):
\* from every state the filter reaches, and for the Adds the caller made
\* since New; and the filter.k calls of filter.Add(data) that an Add of the
\* scalable filter makes on a layer leave the layer as one call does.
C21_AddIdempotentCommutative ==
    /\ [](~bf.isNil =>
             \A x \in Data, y \in Data :
                 /\ Bits(BloomFilterAdd(BloomFilterAdd(bf, x), x))
                        = Bits(BloomFilterAdd(bf, x))
                 /\ Bits(BloomFilterAdd(BloomFilterAdd(bf, x), y))
                        = Bits(BloomFilterAdd(BloomFilterAdd(bf, y), x)))
    /\ []((~bf.isNil /\ Len(addLog) = 2) =>
             /\ Bits(bf) = Bits(BloomFilterAdd(BloomFilterAdd(Zeroed(bf), addLog[2]),
                                               addLog[1]))
             /\ addLog[1] = addLog[2] =>
                    Bits(bf) = Bits(BloomFilterAdd(Zeroed(bf), addLog[1])))
    /\ [][(~sbf.isNil /\ last'.op = "ScalableAdd") =>
              \A i \in 1..Len(sbf.filters) :
                  ~sbf.filters[i].isNil =>
                      sbf'.filters[i] = BloomFilterAdd(sbf.filters[i], last'.data)
         ]_vars

\* two different elements with different probe bits were added to the single
\* filter, one after the other
C21_Witness ==
    /\ ~bf.isNil
    /\ last.op = "Add"
    /\ Len(addLog) = 2
    /\ addLog[1] # addLog[2]
    /\ ProbeBits(bf, addLog[1]) # ProbeBits(bf, addLog[2])
    /\ Cardinality(Bits(bf)) >= 3

----------------------------------------------------------------------------
(* Properties of SpecExclFair: the lock is released, calls return *)

----------------------------------------------------------------------------
(* Properties of Spec: layer containment *)

\* in the step being taken, an Add of the scalable filter, the layer at
\* index i received the item: it is as the filter.k calls of
\* filter.Add(data) leave it
Received(i) ==
    /\ ~sbf.filters[i].isNil
    /\ sbf'.filters[i] = AddKTimes(sbf.filters[i], 0, last'.data)

\* C23: in every Add step of the scalable filter, a layer that receives the
\* item has every older layer receive it too, and a layer the step appends
\* receives nothing; so the layers hold what every newer layer holds, the
\* oldest layer has the probe bits of every element that was added, and a
\* Test(x) of an x added before returns true at the oldest layer.
C23_LayerContainment ==
    /\ [][(~sbf.isNil /\ last'.op = "ScalableAdd") =>
              /\ \A j \in 1..Len(sbf.filters) :
                     Received(j) => \A i \in 1..(j - 1) : Received(i)
              /\ \A j \in (Len(sbf.filters) + 1)..Len(sbf'.filters) :
                     ~sbf'.filters[j].isNil => AllZero(sbf'.filters[j])
              /\ Received(1)
         ]_vars
    /\ [](~sbf.isNil => \A n \in 1..Len(addLog) : LayerHas(1, addLog[n]))
    /\ []((last.op = "ScalableTest" /\ InLog(last.data)) =>
              (last.ret /\ ~last.panic /\ last.visited = 1))

\* the filter has grown by a layer that is a filter, an element was added
\* after that, to both layers, and a Test of it returned true at the oldest
C23_Witness ==
    /\ last.op = "ScalableTest"
    /\ Len(sbf.filters) >= 2
    /\ ~sbf.filters[2].isNil
    /\ ~AllZero(sbf.filters[2])
    /\ Len(addLog) >= 2
    /\ last.data = addLog[Len(addLog)]
    /\ LayerHas(2, last.data)
    /\ last.ret
    /\ last.visited = 1

----------------------------------------------------------------------------
(* Properties of Spec: what the layers are built with *)

\* the seeds of the hash objects the filter f holds, in order
Seeds(f) == [i \in 1..Len(f.hashes) |-> f.hashes[i].seed]

\* the filter f holds the hash objects that the provider hasher gives for
\* its k, and the Mutex that NewMutex gives for the lock type l
BuiltWith(f, hasher, l) ==
    /\ Seeds(f) = [i \in 1..Len(HasherGetHashes(hasher, f.k)) |->
                       HasherGetHashes(hasher, f.k)[i].seed]
    /\ f.mutex = NewMutex(l).mutex

\* C24: the first layer is built with the hash provider and the lock type
\* given to NewScalable (the defaults standing in for the zero values), and
\* every filter of the list, those appended by growth included, is built
\* with the provider and the lock type the first layer was built with.
C24_LayersBuiltAsGiven ==
    /\ (last.op = "NewScalable" /\ ~sbf.isNil) =>
           BuiltWith(sbf.filters[1],
                     applyDefaultsScalable(last.params).Hasher,
                     applyDefaultsScalable(last.params).LockType)
    /\ ~sbf.isNil =>
           \E hasher \in Hashers \ {"nil"}, l \in ValidLockTypes \ {Default} :
               \A i \in 1..Len(sbf.filters) :
                   ~sbf.filters[i].isNil => BuiltWith(sbf.filters[i], hasher, l)

----------------------------------------------------------------------------
(* SpecBuild: one caller, as in Spec, with element counts up to the        *)
(* largest a uint64 holds, on the builds of the package.  The number of    *)
(* bits that getOptimalParams computes as a float64 may then lie beyond    *)
(* uint64; Go leaves the result of the conversion uint64(x) of such an x   *)
(* to the implementation.  uint64 is UintBits wide here: what needs 2^64   *)
(* in the code needs 2^UintBits in the model.                              *)

UintMod == 2 ^ UintBits

\* the compilers' float64 to uint64 conversion of a value that uint64 cannot
\* hold: 1 << 63 from the amd64 code sequence, the largest uint64 from the
\* saturating instruction of arm64
Builds == {"amd64", "arm64"}

\* uint64(x) for x >= 0
Uint64Of(build, x) ==
    IF x < UintMod THEN x
    ELSE IF build = "arm64" THEN UintMod - 1
    ELSE UintMod \div 2

\* getOptimalParams on a build
getOptimalParamsOn(build, n, p) ==
    LET x == CeilDiv((-1) * n * LogMilli(p) * 1000, Ln2Milli * Ln2Milli)
        m0 == Uint64Of(build, x)
        m == IF m0 = 0 THEN 1 ELSE m0
    IN  [m |-> m, k |-> OptimalK(m, n)]

\* bitSetSize := (m + 63) / 64, in uint64
BitSetSize(m) == ((m + 63) % UintMod) \div 64

\* make([]uint64, bitSetSize) panics, or the process runs out of memory:
\* the slice would take half of the address space or more
MakePanics(bitSetSize) == bitSetSize * 64 >= UintMod \div 2

\* New on a build: what it returns, or that it panicked
NewOn(build, params) ==
    LET p == applyDefaults(params)
        mk == getOptimalParamsOn(build, p.N, p.FalsePositiveRate)
        bitSetSize == BitSetSize(mk.m)
        mx == NewMutex(p.LockType)
    IN  IF p.N = 0 THEN [bf |-> NilBF, err |-> ErrNIsZero, panic |-> FALSE]
        ELSE IF RatLeqZero(p.FalsePositiveRate) \/ RatGeqOne(p.FalsePositiveRate)
        THEN [bf |-> NilBF, err |-> ErrFpRate, panic |-> FALSE]
        ELSE IF p.Hasher = "nil"
        THEN [bf |-> NilBF, err |-> ErrHasherNil, panic |-> FALSE]
        ELSE IF mx.err # NoError THEN [bf |-> NilBF, err |-> mx.err, panic |-> FALSE]
        ELSE IF MakePanics(bitSetSize)
        THEN [bf |-> NilBF, err |-> NoError, panic |-> TRUE]
        ELSE [bf |-> [isNil |-> FALSE,
                      m |-> mk.m,
                      k |-> mk.k,
                      bitSet |-> MakeBitSet(bitSetSize),
                      hashes |-> HasherGetHashes(p.Hasher, mk.k),
                      mutex |-> mx.mutex],
              err |-> NoError, panic |-> FALSE]

\* the loop of Add from the i-th hash object on, with the index check of
\* bf.bitSet[index]: the filter after it, and whether it panicked
RECURSIVE AddChecked(_, _, _)
AddChecked(f, i, data) ==
    IF i > Len(f.hashes) THEN [bf |-> f, panic |-> FALSE]
    ELSE LET h == HashWrite(HashReset(f.hashes[i]), data)
             index == HashValue(f, h) \div 64
         IN  IF index >= Len(f.bitSet)
             THEN [bf |-> [f EXCEPT !.hashes[i] = h], panic |-> TRUE]
             ELSE AddChecked(AddRound(f, i, data), i + 1, data)

\* the loop of Test from the i-th hash object on, with the index check
RECURSIVE TestChecked(_, _, _)
TestChecked(f, i, data) ==
    IF i > Len(f.hashes) THEN [bf |-> f, ret |-> TRUE, panic |-> FALSE]
    ELSE LET h == HashWrite(HashReset(f.hashes[i]), data)
             g == [f EXCEPT !.hashes[i] = h]
             index == HashValue(f, h) \div 64
         IN  IF index >= Len(f.bitSet)
             THEN [bf |-> g, ret |-> FALSE, panic |-> TRUE]
             ELSE IF BitIsZero(f.bitSet, HashValue(f, h))
             THEN [bf |-> g, ret |-> FALSE, panic |-> FALSE]
             ELSE TestChecked(g, i + 1, data)

\* the largest element count the model's uint64 takes part in: 1 << 63
HugeN == UintMod \div 2

BuildParams ==
    [N : {1, 2, HugeN}, FalsePositiveRate : {Rat(1, 4), Rat(1, 2)},
     Hasher : {"nil"}, LockType : {Default, NoLock}]

BuildNew ==
    /\ last.op = "none"
    /\ \E build \in Builds, p \in BuildParams :
           LET r == NewOn(build, p)
           IN  /\ bf' = r.bf
               /\ last' = [op |-> "New", build |-> build, params |-> p,
                           err |-> r.err, panic |-> r.panic]
    /\ UNCHANGED <<sbf, mu, pc, call, addLog, started, heap>>

BuildAdd ==
    /\ ~bf.isNil
    /\ Len(addLog) < MaxAdds
    /\ \E data \in Data :
           LET a == AddChecked(bf, 1, data)
           IN  /\ bf' = a.bf
               /\ addLog' = IF a.panic THEN addLog ELSE Append(addLog, data)
               /\ last' = [op |-> "Add", data |-> data, panic |-> a.panic]
    /\ UNCHANGED <<sbf, mu, pc, call, started, heap>>

BuildTest ==
    /\ ~bf.isNil
    /\ \E data \in Data :
           LET t == TestChecked(bf, 1, data)
           IN  /\ bf' = t.bf
               /\ last' = [op |-> "Test", data |-> data, ret |-> t.ret,
                           panic |-> t.panic]
    /\ UNCHANGED <<sbf, mu, pc, call, addLog, started, heap>>

NextBuild ==
    \/ BuildNew
    \/ BuildAdd
    \/ BuildTest

SpecBuild == Init /\ [][NextBuild]_vars

----------------------------------------------------------------------------
(* Properties of SpecBuild: bounds safety *)

\* C25: a filter that New returned has m >= 1, k >= 1 and a bit array of
\* ceil(m / 64) words; every probe of an Add or a Test on it computes a bit
\* index below m whose word index is below the number of words; and no Add
\* or Test panics on an index out of range.
C25_BoundsSafety ==
    /\ ~bf.isNil =>
           /\ bf.m >= 1
           /\ bf.k >= 1
           /\ Len(bf.bitSet) = CeilDiv(bf.m, 64)
           /\ \A data \in Data, i \in 1..Len(bf.hashes) :
                  LET hashValue == Digest(bf.hashes[i].seed, data) % bf.m
                  IN  /\ hashValue \in 0..(bf.m - 1)
                      /\ hashValue \div 64 < Len(bf.bitSet)
    /\ last.op \in {"Add", "Test"} => ~last.panic

====
